---- MODULE Spec2Model ----
(***************************************************************************)
(* Orbital Escape (src/src/App.tsx): the game state machine, the flight    *)
(* integrator of animate() and the pointer handlers, as a state machine.   *)
(*                                                                         *)
(* Numbers.  The program computes in IEEE doubles; the model computes in   *)
(* fixed point.  A position coordinate is an integer number of 1/PosScale  *)
(* world units.  A velocity component is the distance covered in one       *)
(* animation frame (dt = 0.016 s) in the same unit, so that                *)
(* position.add(velocity * dt) is position + velocity, exactly.  Pointer   *)
(* pulls, launchPower and the distances that feed the gravity formula are  *)
(* in 1/AimScale world units; an angle is kept as its (cos, sin) pair in   *)
(* 1/TrigScale.  Threshold comparisons on distances (collision, goal) are  *)
(* exact: they compare squared lengths in three-limb arithmetic.           *)
(*                                                                         *)
(* Signals.  The signals are solid-js signals written outside any batch:   *)
(* a setter that changes a value runs the subscribed effect (lines         *)
(* 688-695) to completion before the next statement of the handler.        *)
(*                                                                         *)
(* Predictor.  predictTrajectory() is modelled with the same arithmetic as *)
(* the flight; the points it returns are kept as the contents of           *)
(* trajectoryLine, which initLevel replaces by a line without points.      *)
(*                                                                         *)
(* Three specifications.  Spec is the whole game from the main menu.       *)
(* FlightSpec is the game from the entry of one level, with the pointer,   *)
(* the animation frames and the Retry button, and keeps the history of     *)
(* the positions integrated in the current Run.  FairFlightSpec is         *)
(* FlightSpec with the animation frames weakly fair.                       *)
(*                                                                         *)
(* Left out: meshes, materials, the aim line, the animation clock `time`,  *)
(* showHint and the resize handler: none is read by the game logic.        *)
(* retryCounter is left out as a value: it is only ever incremented, so    *)
(* every retryLevel() notifies the effect.                                 *)
(***************************************************************************)
EXTENDS Integers, Sequences, FiniteSets, TLC

(* ---------------- bounds of the model ---------------- *)
MaxAttempts == 1

(* ---------------- fixed-point scales ---------------- *)
PosScale == 500000
AimScale == 400
TrigScale == 10000
LimbBase == 8192

(* position units per aim unit *)
Coarse == PosScale \div AimScale

(* dt = 0.016 (line 606) as a fraction; a velocity is held as the distance *)
(* it covers in one frame, so VelScale units stand for 1 world unit per s  *)
DtNum == 16
DtDen == 1000
VelScale == (PosScale * DtNum) \div DtDen

(* ---------------- program constants ---------------- *)
G == 8
GRAVITY_SOFTENING == 10
MAX_TRAIL_LENGTH == 100
MaxPower == 30
LaunchThreshold == 2

(* LAUNCH_POWER_MULTIPLIER = 0.5 = 1 / LaunchDivisor *)
LaunchDivisor == 2
BoundX == 55
BoundY == 45

(* GOAL_RADIUS * 1.2 = 2.5 * 1.2 = 3.0 world units *)
GoalCapture == 3 * PosScale

(* the craft's collision margin, 0.5 world units *)
CraftMargin == PosScale \div 2

(* the predictor: updateTrajectoryLine asks for 100 steps (line 408) of    *)
(* dt = 0.016 * 3 (line 367), stops within GOAL_RADIUS * 1.5 = 3.75 of the *)
(* goal (line 393) and beyond |x| > 60 or |y| > 50 (line 400)              *)
PredictSteps == 100
PredictFrames == 3
GoalPreviewAsCapture == 3 * PosScale
GoalPreview == (15 * PosScale) \div 4
PreviewBoundX == 60
PreviewBoundY == 50

(* ---------------- arithmetic ---------------- *)
Abs(n) == IF n >= 0 THEN n ELSE 0 - n

(* integer division rounding toward zero *)
Quot(a, b) == IF a >= 0 THEN a \div b ELSE 0 - ((0 - a) \div b)

RECURSIVE SqrtSearch(_, _, _)
SqrtSearch(n, lo, hi) ==
  IF lo >= hi THEN lo
  ELSE LET mid == (lo + hi + 1) \div 2
       IN IF mid * mid <= n THEN SqrtSearch(n, mid, hi)
                            ELSE SqrtSearch(n, lo, mid - 1)

(* Math.sqrt on a non-negative integer, rounded down *)
Sqrt(n) == SqrtSearch(n, 0, 46340)

(* the square of v, |v| < LimbBase^2, as three limbs <<high, middle, low>> *)
Square3(v) ==
  LET a == Abs(v) \div LimbBase
      b == Abs(v) % LimbBase
  IN <<a * a, 2 * a * b, b * b>>

Carry3(t) ==
  LET m == t[2] + (t[3] \div LimbBase)
  IN <<t[1] + (m \div LimbBase), m % LimbBase, t[3] % LimbBase>>

Less3(s, t) ==
  \/ s[1] < t[1]
  \/ s[1] = t[1] /\ s[2] < t[2]
  \/ s[1] = t[1] /\ s[2] = t[2] /\ s[3] < t[3]

LengthSq3(dx, dy) ==
  LET p == Square3(dx)
      q == Square3(dy)
  IN Carry3(<<p[1] + q[1], p[2] + q[2], p[3] + q[3]>>)

(* Vector3.length() < r and distanceTo() < r, for the vector (dx, dy) *)
LengthLess(dx, dy, r) == Less3(LengthSq3(dx, dy), LengthSq3(r, 0))

(* Vector3.length() of (dx, dy), in aim units *)
CoarseLength(dx, dy) ==
  Sqrt(Quot(dx, Coarse) * Quot(dx, Coarse) + Quot(dy, Coarse) * Quot(dy, Coarse))

(* ---------------- the level catalog ---------------- *)
Vec(a, b) == [x |-> a, y |-> b]
At(a, b) == Vec(a * PosScale, b * PosScale)

(* a planet at (a, b) with the given mass and a radius given in tenths *)
Body(a, b, m, r10) ==
  [x |-> a * PosScale, y |-> b * PosScale, mass |-> m, radius |-> r10 * (PosScale \div 10)]

LEVELS == <<
  [spacecraft |-> At(0 - 20, 0), goal |-> At(20, 0), planets |-> <<>>],
  [spacecraft |-> At(0 - 25, 0), goal |-> At(25, 0),
   planets |-> <<Body(0, 0 - 12, 400, 25)>>],
  [spacecraft |-> At(0 - 25, 0 - 10), goal |-> At(25, 10),
   planets |-> <<Body(0, 0 - 5, 600, 30)>>],
  [spacecraft |-> At(0 - 30, 0), goal |-> At(30, 0),
   planets |-> <<Body(0, 15, 400, 20), Body(0, 0 - 15, 400, 20)>>],
  [spacecraft |-> At(0 - 30, 0 - 15), goal |-> At(30, 15),
   planets |-> <<Body(0 - 10, 10, 350, 20), Body(10, 0 - 5, 400, 20)>>],
  [spacecraft |-> At(0 - 35, 0), goal |-> At(35, 0),
   planets |-> <<Body(0 - 15, 8, 300, 15), Body(0 - 15, 0 - 8, 300, 15),
                 Body(0, 12, 350, 18), Body(0, 0 - 12, 350, 18),
                 Body(15, 6, 300, 15), Body(15, 0 - 6, 300, 15)>>],
  [spacecraft |-> At(0 - 30, 20), goal |-> At(30, 20),
   planets |-> <<Body(0, 0, 1500, 40)>> ] >>

(* level indices are 0-based, as in the program *)
LevelIndices == 0 .. (Len(LEVELS) - 1)
LevelAt(i) == LEVELS[i + 1]
LastLevel == Len(LEVELS) - 1

(* the value of `spacecraft` and `goal` before the first initLevel *)
Undefined == [undefined |-> TRUE]
Zero == Vec(0, 0)

(* ---------------- inputs ---------------- *)
(* Pointer positions are given by the pull they make: the vector from the  *)
(* pointer to the craft (dx, dy of onMouseMove), in aim units.             *)
(*   (40, 2)   longer than 30: the power is clamped                        *)
(*   (30, 30)  longer than 30, diagonal                                    *)
(*   (2, 0)    power exactly 2, the launch threshold                       *)
(*   (3/2, 0)  power 1.5, below the threshold                              *)
Pulls == << Vec(40 * AimScale, 2 * AimScale),
            Vec(30 * AimScale, 30 * AimScale),
            Vec(2 * AimScale, 0),
            Vec(3 * (AimScale \div 2), 0) >>

(* the specification of single flights also pulls straight back by 30,    *)
(* which launches with velocity (15, 0)                                    *)
FlightPulls == Pulls \o << Vec(30 * AimScale, 0) >>

(* ---------------- state ---------------- *)
VARIABLES
  currentLevel,        \* signal, line 111
  gameState,           \* signal, line 112
  attempts,            \* signal, line 113
  showMenu,            \* signal, line 114
  showLevelSelect,     \* signal, line 115
  isDragging,          \* signal, line 116
  launchPower,         \* signal, line 117, in aim units
  launchAngle,         \* signal, line 118, as [c, s] = (cos, sin) * TrigScale
  completedLevels,     \* signal, line 120
  spacecraft,          \* spacecraft.position, or Undefined before the first initLevel
  spacecraftVelocity,  \* line 183
  planets,             \* line 184
  goal,                \* goal.position, or Undefined
  trailPositions,      \* line 189
  trajectoryLine,      \* the points drawn by trajectoryLine (its draw range), line 187
  event,               \* history: the handler that made the last step and its argument
  phaseWrites,         \* history: the values passed to setGameState during the last step
  before,              \* history: some signals as they were when the last step began
  inits,               \* history: the number of runs of initLevel during the last step
  flown                \* history: the positions integrated since the last initLevel

vars == <<currentLevel, gameState, attempts, showMenu, showLevelSelect, isDragging,
          launchPower, launchAngle, completedLevels, spacecraft, spacecraftVelocity,
          planets, goal, trailPositions, trajectoryLine, event, phaseWrites, before,
          inits, flown>>

(* the state as one record, so that a handler is a composition of writes *)
Now ==
  [currentLevel |-> currentLevel, gameState |-> gameState, attempts |-> attempts,
   showMenu |-> showMenu, showLevelSelect |-> showLevelSelect,
   isDragging |-> isDragging, launchPower |-> launchPower, launchAngle |-> launchAngle,
   completedLevels |-> completedLevels, spacecraft |-> spacecraft,
   spacecraftVelocity |-> spacecraftVelocity, planets |-> planets, goal |-> goal,
   trailPositions |-> trailPositions, trajectoryLine |-> trajectoryLine,
   phaseWrites |-> <<>>, inits |-> 0, produced |-> <<>>, predictions |-> 0]

Earlier ==
  [gameState |-> gameState, attempts |-> attempts, currentLevel |-> currentLevel,
   completedLevels |-> completedLevels, isDragging |-> isDragging,
   launchPower |-> launchPower]

(* the state after construction, as a record *)
Mounted ==
  [currentLevel |-> 0, gameState |-> "aiming", attempts |-> 0,
   showMenu |-> TRUE, showLevelSelect |-> FALSE,
   isDragging |-> FALSE, launchPower |-> 0, launchAngle |-> [c |-> TrigScale, s |-> 0],
   completedLevels |-> {}, spacecraft |-> Undefined,
   spacecraftVelocity |-> Zero, planets |-> <<>>, goal |-> Undefined,
   trailPositions |-> <<>>, trajectoryLine |-> Undefined,
   phaseWrites |-> <<>>, inits |-> 0, produced |-> <<>>, predictions |-> 0]

Init ==
  /\ currentLevel = 0
  /\ gameState = "aiming"
  /\ attempts = 0
  /\ showMenu = TRUE
  /\ showLevelSelect = FALSE
  /\ isDragging = FALSE
  /\ launchPower = 0
  /\ launchAngle = [c |-> TrigScale, s |-> 0]
  /\ completedLevels = {}
  /\ spacecraft = Undefined
  /\ spacecraftVelocity = Zero
  /\ planets = <<>>
  /\ goal = Undefined
  /\ trailPositions = <<>>
  /\ trajectoryLine = Undefined
  /\ event = [op |-> "mount", arg |-> 0]
  /\ phaseWrites = <<>>
  /\ before = Earlier
  /\ inits = 0
  /\ flown = <<>>

(* ---------------- gravity (lines 612-627) ---------------- *)
(* One pass over the planets in list order from `pos`.  A planet closer    *)
(* than radius + margin sets crashed and ends the loop; otherwise its pull *)
(* G * mass / (distance + GRAVITY_SOFTENING)^2 along the unit direction is *)
(* added to the acceleration (kept in 1/TrigScale world units per s^2).    *)
RECURSIVE Pull(_, _, _, _, _)
Pull(pos, bodies, margin, i, acc) ==
  IF i > Len(bodies) THEN [crashed |-> FALSE, acceleration |-> acc]
  ELSE
    LET planet == bodies[i]
        dx == planet.x - pos.x
        dy == planet.y - pos.y
    IN IF LengthLess(dx, dy, planet.radius + margin)
       THEN [crashed |-> TRUE, acceleration |-> acc]
       ELSE
         LET distance == CoarseLength(dx, dy)
             softDistance == distance + GRAVITY_SOFTENING * AimScale
             \* force in 1/1000 world units per s^2
             force == (G * planet.mass * AimScale * AimScale)
                        \div ((softDistance * softDistance) \div 1000)
             ux == Quot(Quot(dx, Coarse) * TrigScale, distance)
             uy == Quot(Quot(dy, Coarse) * TrigScale, distance)
         IN Pull(pos, bodies, margin, i + 1,
                 Vec(acc.x + Quot(force * ux, 1000), acc.y + Quot(force * uy, 1000)))

GravityNoMargin(pos, bodies, margin) == Pull(pos, bodies, 0, 1, Zero)
Gravity(pos, bodies, margin) == Pull(pos, bodies, margin, 1, Zero)

(* acceleration.multiplyScalar(dt) for dt = frames * 0.016, as a velocity *)
Impulse(acc, frames) ==
  LET perFrame == (VelScale * DtNum) \div DtDen
  IN Vec(Quot(acc.x * perFrame * frames, TrigScale), Quot(acc.y * perFrame * frames, TrigScale))

(* lines 659 and 669 *)
ReachedGoalWide(pos, g) == LengthLess(g.x - pos.x, g.y - pos.y, (GoalCapture * 5) \div 4)
ReachedGoalTouching(pos, g) == LengthLess(g.x - pos.x, g.y - pos.y, (GoalCapture * 5) \div 6)
ReachedGoal(pos, g) == LengthLess(g.x - pos.x, g.y - pos.y, GoalCapture)
OutOfBoundsSquare(pos) == Abs(pos.x) > BoundX * PosScale \/ Abs(pos.y) > BoundX * PosScale
OutOfBounds(pos) == Abs(pos.x) > BoundX * PosScale \/ Abs(pos.y) > BoundY * PosScale

(* lines 642-645 *)
PushTrailNoShift(t, pos) == Append(t, pos)
PushTrailPop(t, pos) ==
  LET pushed == Append(t, pos)
  IN IF Len(pushed) > MAX_TRAIL_LENGTH THEN SubSeq(pushed, 1, MAX_TRAIL_LENGTH) ELSE pushed
PushTrail(t, pos) ==
  LET pushed == Append(t, pos)
  IN IF Len(pushed) > MAX_TRAIL_LENGTH THEN Tail(pushed) ELSE pushed

(* ---------------- signal writes and the level effect ---------------- *)
setGameState(s, v) ==
  [s EXCEPT !.gameState = v, !.phaseWrites = Append(@, v)]

(* lines 428-474 *)
initLevelUncounted(s, levelIndex) ==
  LET level == LevelAt(levelIndex)
      t == [s EXCEPT !.planets = level.planets,
                     !.spacecraft = level.spacecraft,
                     !.goal = level.goal,
                     !.trajectoryLine = <<>>,
                     !.trailPositions = <<>>,
                     !.spacecraftVelocity = Zero,
                     !.inits = @ + 1]
  IN setGameState(t, "aiming")
initLevel(s, levelIndex) ==
  LET level == LevelAt(levelIndex)
      t == [s EXCEPT !.planets = level.planets,
                     !.spacecraft = level.spacecraft,
                     !.goal = level.goal,
                     !.trajectoryLine = <<>>,
                     !.trailPositions = <<>>,
                     !.spacecraftVelocity = Zero,
                     !.inits = @ + 1]
  IN [setGameState(t, "aiming") EXCEPT !.attempts = @ + 1]

(* lines 688-695 *)
levelEffectBehindMenu(s) ==
  IF ~s.showLevelSelect THEN initLevel(s, s.currentLevel) ELSE s
levelEffect(s) ==
  IF ~s.showMenu /\ ~s.showLevelSelect THEN initLevel(s, s.currentLevel) ELSE s

(* A setter notifies only when the value changes.  The effect reads        *)
(* showLevelSelect only when showMenu() is false (the && short-circuits),  *)
(* so it is subscribed to showLevelSelect exactly while showMenu is false. *)
setShowMenu(s, v) ==
  IF s.showMenu = v THEN s ELSE levelEffect([s EXCEPT !.showMenu = v])

setShowLevelSelect(s, v) ==
  IF s.showLevelSelect = v THEN s
  ELSE IF s.showMenu THEN [s EXCEPT !.showLevelSelect = v]
       ELSE levelEffect([s EXCEPT !.showLevelSelect = v])

setCurrentLevel(s, v) ==
  IF s.currentLevel = v THEN s ELSE levelEffect([s EXCEPT !.currentLevel = v])

(* ---------------- handlers, as functions of the state ---------------- *)
(* lines 707-711 *)
startGameClearsProgress(s) ==
  [setCurrentLevel(setShowMenu(s, FALSE), 0) EXCEPT !.attempts = 0, !.completedLevels = {}]
startGame(s) ==
  [setCurrentLevel(setShowMenu(s, FALSE), 0) EXCEPT !.attempts = 0]

(* lines 713-721 *)
nextLevel(s) ==
  IF s.currentLevel < Len(LEVELS) - 1
  THEN setCurrentLevel(s, s.currentLevel + 1)
  ELSE setShowMenu(setGameState(s, "aiming"), TRUE)

(* lines 723-725 *)
retryLevel(s) == levelEffect(s)

(* lines 727-730 *)
openLevelSelect(s) == setShowMenu(setShowLevelSelect(s, TRUE), FALSE)

(* lines 732-736 *)
selectLevel(s, index) ==
  [setCurrentLevel(setShowLevelSelect(s, FALSE), index) EXCEPT !.attempts = 0]

(* line 797 *)
backToMenu(s) == setShowMenu(setShowLevelSelect(s, FALSE), TRUE)

(* line 851 *)
openMenu(s) == setShowMenu(s, TRUE)

(* lines 489-498 *)
onMouseDownAnyPhase(s) ==
  IF s.showMenu \/ s.showLevelSelect THEN s
  ELSE [s EXCEPT !.isDragging = TRUE]
onMouseDown(s) ==
  IF s.showMenu \/ s.showLevelSelect \/ s.gameState # "aiming" THEN s
  ELSE [s EXCEPT !.isDragging = TRUE]

(* Math.min(Math.sqrt(dx * dx + dy * dy), 30), line 508 *)
PowerOfUnclamped(pull) == Sqrt(pull.x * pull.x + pull.y * pull.y)
PowerOf(pull) ==
  LET length == Sqrt(pull.x * pull.x + pull.y * pull.y)
  IN IF length < MaxPower * AimScale THEN length ELSE MaxPower * AimScale

(* (cos, sin) of Math.atan2(dy, dx), line 509; atan2(0, 0) is 0 *)
AngleOf(pull) ==
  LET length == Sqrt(pull.x * pull.x + pull.y * pull.y)
  IN IF length = 0 THEN [c |-> TrigScale, s |-> 0]
     ELSE [c |-> Quot(pull.x * TrigScale, length), s |-> Quot(pull.y * TrigScale, length)]

(* (cos(angle), sin(angle)) * power * LAUNCH_POWER_MULTIPLIER, lines 528-532 and 543-547 *)
LaunchVelocity(angle, power) ==
  LET unit == (LaunchDivisor * TrigScale * AimScale) \div VelScale
  IN Vec(Quot(angle.c * power, unit), Quot(angle.s * power, unit))

(* lines 362-404.  The simulated velocity is, like the craft's, the        *)
(* distance covered in one frame: a step of dt = PredictFrames frames      *)
(* moves the point by PredictFrames times the velocity.                    *)
predictStep(s, st) ==
  IF st.stopped THEN st
  ELSE
    LET pass == Gravity(st.pos, s.planets, 0)
    IN IF pass.crashed THEN [st EXCEPT !.stopped = TRUE]
       ELSE IF s.goal # Undefined
               /\ LengthLess(s.goal.x - st.pos.x, s.goal.y - st.pos.y, GoalPreview)
       THEN [st EXCEPT !.stopped = TRUE]
       ELSE
         LET dv == Impulse(pass.acceleration, PredictFrames)
             velocity == Vec(st.vel.x + dv.x, st.vel.y + dv.y)
             position == Vec(st.pos.x + PredictFrames * velocity.x,
                             st.pos.y + PredictFrames * velocity.y)
         IN [pos |-> position, vel |-> velocity,
             positions |-> Append(st.positions, position),
             stopped |-> \/ Abs(position.x) > PreviewBoundX * PosScale
                         \/ Abs(position.y) > PreviewBoundY * PosScale]

(* the loop `for (let i = 0; i < steps; i++)`: n iterations from st, a     *)
(* break leaving the remaining iterations without effect                   *)
RECURSIVE predictLoop(_, _, _)
predictLoop(s, st, n) ==
  IF n <= 0 THEN st
  ELSE IF n = 1 THEN predictStep(s, st)
  ELSE LET half == predictLoop(s, st, n \div 2)
       IN IF half.stopped THEN half ELSE predictLoop(s, half, n - (n \div 2))

predictTrajectoryOneMore(s, startPos, velocity, steps) ==
  predictLoop(s, [pos |-> startPos, vel |-> velocity, positions |-> <<>>,
                  stopped |-> FALSE], steps + 1).positions
predictTrajectory(s, startPos, velocity, steps) ==
  predictLoop(s, [pos |-> startPos, vel |-> velocity, positions |-> <<>>,
                  stopped |-> FALSE], steps).positions

(* The predictor reads the planets, the goal, the start position and the   *)
(* velocity and nothing else.  Its results on the catalog's levels from    *)
(* their start positions with the velocities of Pulls are computed once.   *)
Fresh(i) == [planets |-> LevelAt(i).planets, goal |-> LevelAt(i).goal]

Previews ==
  [i \in LevelIndices |->
    [k \in 1 .. Len(FlightPulls) |->
      predictTrajectory(Fresh(i), LevelAt(i).spacecraft,
                        LaunchVelocity(AngleOf(FlightPulls[k]), PowerOf(FlightPulls[k])),
                        PredictSteps)]]

Predicted(s, startPos, velocity) ==
  LET known == {c \in LevelIndices \X (1 .. Len(FlightPulls)) :
                  /\ LevelAt(c[1]).planets = s.planets
                  /\ LevelAt(c[1]).goal = s.goal
                  /\ LevelAt(c[1]).spacecraft = startPos
                  /\ LaunchVelocity(AngleOf(FlightPulls[c[2]]),
                                    PowerOf(FlightPulls[c[2]])) = velocity}
  IN IF known # {}
     THEN LET c == CHOOSE c \in known : TRUE IN Previews[c[1]][c[2]]
     ELSE predictTrajectory(s, startPos, velocity, PredictSteps)

(* lines 407-426: the line's draw range is the returned points *)
updateTrajectoryLine(s, startPos, velocity) ==
  [s EXCEPT !.trajectoryLine = Predicted(s, startPos, velocity),
            !.predictions = @ + 1]

(* lines 500-534 *)
onMouseMove(s, pull) ==
  IF ~s.isDragging \/ s.gameState # "aiming" THEN s
  ELSE updateTrajectoryLine(
         [s EXCEPT !.launchPower = PowerOf(pull), !.launchAngle = AngleOf(pull)],
         s.spacecraft,
         LaunchVelocity(AngleOf(pull), PowerOf(pull)))

(* lines 536-560 *)
onMouseUpAtThreshold(s) ==
  IF ~s.isDragging \/ s.gameState # "aiming" THEN s
  ELSE
    LET t == [s EXCEPT !.isDragging = FALSE]
        u == IF t.launchPower >= LaunchThreshold * AimScale
             THEN setGameState(
                    [t EXCEPT !.spacecraftVelocity = LaunchVelocity(t.launchAngle, t.launchPower)],
                    "flying")
             ELSE t
    IN [u EXCEPT !.launchPower = 0]
onMouseUpAnyPower(s) ==
  IF ~s.isDragging \/ s.gameState # "aiming" THEN s
  ELSE
    LET t == [s EXCEPT !.isDragging = FALSE]
        u == setGameState(
               [t EXCEPT !.spacecraftVelocity = LaunchVelocity(t.launchAngle, t.launchPower)],
               "flying")
    IN [u EXCEPT !.launchPower = 0]
onMouseUpKeepsPower(s) ==
  IF ~s.isDragging \/ s.gameState # "aiming" THEN s
  ELSE
    LET t == [s EXCEPT !.isDragging = FALSE]
    IN IF t.launchPower > LaunchThreshold * AimScale
       THEN setGameState(
              [t EXCEPT !.spacecraftVelocity = LaunchVelocity(t.launchAngle, t.launchPower)],
              "flying")
       ELSE t
onMouseUp(s) ==
  IF ~s.isDragging \/ s.gameState # "aiming" THEN s
  ELSE
    LET t == [s EXCEPT !.isDragging = FALSE]
        u == IF t.launchPower > LaunchThreshold * AimScale
             THEN setGameState(
                    [t EXCEPT !.spacecraftVelocity = LaunchVelocity(t.launchAngle, t.launchPower)],
                    "flying")
             ELSE t
    IN [u EXCEPT !.launchPower = 0]

(* lines 661-665 *)
addCompletedFresh(s) == [s EXCEPT !.completedLevels = {s.currentLevel}]
addCompleted(s) == [s EXCEPT !.completedLevels = @ \cup {s.currentLevel}]

(* the physics update, lines 606-672 *)
integrateDoubleStep(s) ==
  LET pass == Gravity(s.spacecraft, s.planets, CraftMargin)
  IN IF pass.crashed THEN setGameState(s, "failed")
     ELSE
       LET dv == Impulse(pass.acceleration, 1)
           velocity == Vec(s.spacecraftVelocity.x + dv.x, s.spacecraftVelocity.y + dv.y)
           position == Vec(s.spacecraft.x + 2 * velocity.x, s.spacecraft.y + 2 * velocity.y)
           moved == [s EXCEPT !.spacecraftVelocity = velocity,
                              !.spacecraft = position,
                              !.trailPositions = PushTrail(@, position),
                              !.produced = Append(@, position)]
           scored == IF moved.goal # Undefined /\ ReachedGoal(position, moved.goal)
                     THEN addCompleted(setGameState(moved, "success"))
                     ELSE moved
       IN IF OutOfBounds(position) THEN setGameState(scored, "failed") ELSE scored
integrate(s) ==
  LET pass == Gravity(s.spacecraft, s.planets, CraftMargin)
  IN IF pass.crashed THEN setGameState(s, "failed")
     ELSE
       LET dv == Impulse(pass.acceleration, 1)
           velocity == Vec(s.spacecraftVelocity.x + dv.x, s.spacecraftVelocity.y + dv.y)
           position == Vec(s.spacecraft.x + velocity.x, s.spacecraft.y + velocity.y)
           moved == [s EXCEPT !.spacecraftVelocity = velocity,
                              !.spacecraft = position,
                              !.trailPositions = PushTrail(@, position),
                              !.produced = Append(@, position)]
           scored == IF moved.goal # Undefined /\ ReachedGoal(position, moved.goal)
                     THEN addCompleted(setGameState(moved, "success"))
                     ELSE moved
       IN IF OutOfBounds(position) THEN setGameState(scored, "failed") ELSE scored

(* lines 580-683 *)
animateAnyPhase(s) == IF s.spacecraft # Undefined THEN integrate(s) ELSE s
animate(s) ==
  IF s.gameState = "flying" /\ s.spacecraft # Undefined THEN integrate(s) ELSE s

(* ---------------- actions ---------------- *)
(* The step made by handler op with argument arg, which takes the state   *)
(* to t.  A run of a handler that writes nothing (an early return, a       *)
(* setter given the value the signal already has) is a stuttering step:    *)
(* the history variables record the last handler that wrote something.     *)
(* Steps that would take attempts above MaxAttempts are cut off.           *)
Idle(t) == [t EXCEPT !.predictions = 0] = Now

Write(t, op, arg) ==
  /\ t.attempts <= MaxAttempts
  /\ currentLevel' = t.currentLevel
  /\ gameState' = t.gameState
  /\ attempts' = t.attempts
  /\ showMenu' = t.showMenu
  /\ showLevelSelect' = t.showLevelSelect
  /\ isDragging' = t.isDragging
  /\ launchPower' = t.launchPower
  /\ launchAngle' = t.launchAngle
  /\ completedLevels' = t.completedLevels
  /\ spacecraft' = t.spacecraft
  /\ spacecraftVelocity' = t.spacecraftVelocity
  /\ planets' = t.planets
  /\ goal' = t.goal
  /\ trailPositions' = t.trailPositions
  /\ trajectoryLine' = t.trajectoryLine
  /\ phaseWrites' = t.phaseWrites
  /\ event' = [op |-> op, arg |-> arg]
  /\ before' = Earlier
  /\ inits' = t.inits

Step(t, op, arg) ==
  IF Idle(t) THEN UNCHANGED vars ELSE Write(t, op, arg) /\ flown' = flown

(* the buttons exist only while their <Show> condition holds *)
InGame == ~showMenu /\ ~showLevelSelect

StartGame == showMenu /\ Step(startGame(Now), "startGame", 0)

OpenLevelSelect == showMenu /\ Step(openLevelSelect(Now), "openLevelSelect", 0)

SelectLevel == showLevelSelect /\ \E index \in LevelIndices : Step(selectLevel(Now, index), "selectLevel", index)

BackToMenu == showLevelSelect /\ Step(backToMenu(Now), "backToMenu", 0)

OpenMenu == InGame /\ Step(openMenu(Now), "openMenu", 0)

RetryLevel == (InGame \/ gameState \in {"success", "failed"}) /\ Step(retryLevel(Now), "retryLevel", 0)

NextLevel == gameState = "success" /\ Step(nextLevel(Now), "nextLevel", 0)

MouseDown == Step(onMouseDown(Now), "onMouseDown", 0)

MouseMove == \E k \in 1 .. Len(Pulls) : Step(onMouseMove(Now, Pulls[k]), "onMouseMove", k)

MouseUp == Step(onMouseUp(Now), "onMouseUp", 0)

Tick == Step(animate(Now), "animate", 0)

Next ==
  \/ StartGame
  \/ OpenLevelSelect
  \/ SelectLevel
  \/ BackToMenu
  \/ OpenMenu
  \/ RetryLevel
  \/ NextLevel
  \/ MouseDown
  \/ MouseMove
  \/ MouseUp
  \/ Tick

Spec == Init /\ [][Next]_vars

(* ---------------- single flights ---------------- *)
(* The game from the entry of a level chosen in the level-select overlay,  *)
(* with the pointer, the animation frames and the Retry button only; this  *)
(* specification keeps the history of the positions integrated in the      *)
(* current Run.                                                             *)
Entered(index) == selectLevel(openLevelSelect(Mounted), index)

FlightInit ==
  \E index \in LevelIndices :
    LET t == Entered(index)
    IN /\ currentLevel = t.currentLevel
       /\ gameState = t.gameState
       /\ attempts = t.attempts
       /\ showMenu = t.showMenu
       /\ showLevelSelect = t.showLevelSelect
       /\ isDragging = t.isDragging
       /\ launchPower = t.launchPower
       /\ launchAngle = t.launchAngle
       /\ completedLevels = t.completedLevels
       /\ spacecraft = t.spacecraft
       /\ spacecraftVelocity = t.spacecraftVelocity
       /\ planets = t.planets
       /\ goal = t.goal
       /\ trailPositions = t.trailPositions
       /\ trajectoryLine = t.trajectoryLine
       /\ phaseWrites = t.phaseWrites
       /\ event = [op |-> "selectLevel", arg |-> index]
       /\ before = [gameState |-> "aiming", attempts |-> 0, currentLevel |-> 0,
                    completedLevels |-> {}, isDragging |-> FALSE, launchPower |-> 0]
       /\ inits = t.inits
       /\ flown = <<>>

Recorded(t, op, arg) ==
  IF Idle(t) THEN UNCHANGED vars
  ELSE Write(t, op, arg) /\ flown' = IF t.inits > 0 THEN <<>> ELSE flown \o t.produced

FlightMouseDown == Recorded(onMouseDown(Now), "onMouseDown", 0)

FlightMouseMove ==
  \E k \in 1 .. Len(FlightPulls) : Recorded(onMouseMove(Now, FlightPulls[k]), "onMouseMove", k)

FlightMouseUp == Recorded(onMouseUp(Now), "onMouseUp", 0)

FlightTick == Recorded(animate(Now), "animate", 0)

FlightRetry == InGame /\ Recorded(retryLevel(Now), "retryLevel", 0)

FlightNext ==
  \/ FlightMouseDown
  \/ FlightMouseMove
  \/ FlightMouseUp
  \/ FlightTick
  \/ FlightRetry

FlightSpec == FlightInit /\ [][FlightNext]_vars

(* animate reschedules itself on every frame (line 581) and integrates in  *)
(* exactly the frames that find the phase Flying (line 604), so a frame    *)
(* that changes the state is not put off for ever: weak fairness of        *)
(* FlightTick, written out as "infinitely often no frame is due, or        *)
(* infinitely many frames are taken", with the tick's enabling condition   *)
(* given as the state predicate FrameDue.                                  *)
FrameDue == gameState = "flying" /\ spacecraft # Undefined

FairFlightSpec == FlightSpec /\ ([]<>~FrameDue \/ []<><<FlightTick>>_vars)

(* ======================= the claims ======================= *)
(* the claims' own reading of the thresholds, in position units *)
TouchesBody(pos, planet) ==
  LengthLess(planet.x - pos.x, planet.y - pos.y, planet.radius + (PosScale \div 2))
Colliding == \E i \in 1 .. Len(planets) : TouchesBody(spacecraft, planets[i])
WithinGoal(pos) == LengthLess(goal.x - pos.x, goal.y - pos.y, 3 * PosScale)
OutsidePlay(pos) ==
  \/ pos.x > 55 * PosScale \/ pos.x < 0 - 55 * PosScale
  \/ pos.y > 45 * PosScale \/ pos.y < 0 - 45 * PosScale
FlyingTick == gameState = "flying" /\ event'.op = "animate"
RunUnchanged == UNCHANGED <<spacecraft, spacecraftVelocity, trailPositions>>

(* C1: the phase changes only along Aiming -> Flying (by pointer-up),     *)
(* Flying -> Success or Failed (by a tick) and any phase -> Aiming (by     *)
(* retry, next-level, level-select or start).  The overlay's Back to Menu  *)
(* button, which is not among the claim's events, also re-enters Aiming.   *)
PhaseEdges ==
  [][gameState' # gameState =>
       \/ /\ gameState = "aiming" /\ gameState' = "flying"
          /\ event'.op = "onMouseUp"
       \/ /\ gameState = "flying" /\ gameState' \in {"success", "failed"}
          /\ event'.op = "animate"
       \/ /\ gameState' = "aiming"
          /\ event'.op \in {"retryLevel", "nextLevel", "selectLevel", "startGame"}
       \/ /\ gameState' = "aiming"
          /\ event'.op = "backToMenu"]_vars

(* C1 witness: a whole round Aiming, Flying, Success, Aiming: next-level   *)
(* after a success on the last level.                                      *)
PhaseRoundTrip ==
  /\ event.op = "nextLevel"
  /\ before.gameState = "success"
  /\ gameState = "aiming"
  /\ currentLevel = LastLevel

(* C2: a tick in Aiming, Success or Failed leaves the craft's position and *)
(* velocity, the trail, the phase and completedLevels as they are.         *)
IdleTick ==
  gameState # "flying" =>
    LET t == animate(Now)
    IN /\ t.spacecraft = spacecraft
       /\ t.spacecraftVelocity = spacecraftVelocity
       /\ t.trailPositions = trailPositions
       /\ t.gameState = gameState
       /\ t.completedLevels = completedLevels

(* C2 witness: a flight has ended and the craft still has its velocity, so *)
(* an integration step would move it.                                      *)
EndedWithSpeed ==
  /\ gameState \in {"success", "failed"}
  /\ event.op = "animate"
  /\ spacecraftVelocity # Zero
  /\ animate(Now) = Now

(* C3: a Flying tick that starts within radius + 0.5 of a body ends in     *)
(* Failed and leaves position, velocity and trail untouched.               *)
CollisionFreezes ==
  [][FlyingTick /\ Colliding => gameState' = "failed" /\ RunUnchanged]_vars

(* C3 witness: a crash into the second body of the list, the first one not *)
(* touched, so its pull had been accumulated when the loop ended.          *)
CrashedIntoSecond ==
  /\ gameState = "failed"
  /\ event.op = "animate"
  /\ Len(planets) >= 2
  /\ ~TouchesBody(spacecraft, planets[1])
  /\ TouchesBody(spacecraft, planets[2])
  /\ Gravity(spacecraft, planets, CraftMargin).acceleration # Zero

(* C4: a Flying tick without collision whose new position is within 3.0 of *)
(* the goal ends in Success and inserts the current level index into the   *)
(* set completedLevels; on a level already completed the set keeps its     *)
(* size.                                                                   *)
GoalCaptured ==
  [][FlyingTick /\ ~Colliding /\ WithinGoal(spacecraft') =>
       /\ gameState' = "success"
       /\ currentLevel \in completedLevels'
       /\ completedLevels' = completedLevels \cup {currentLevel}
       /\ (currentLevel \in completedLevels =>
             Cardinality(completedLevels') = Cardinality(completedLevels))]_vars

(* C4 witness: the goal is reached on a level that was completed before.   *)
GoalReachedAgain ==
  /\ event.op = "animate"
  /\ gameState = "success"
  /\ currentLevel \in before.completedLevels
  /\ completedLevels = before.completedLevels

OpenSpaceBounds ==
  [][FlyingTick /\ planets = <<>> =>
       /\ ~OutsidePlay(spacecraft)
       /\ gameState' = "failed" <=> OutsidePlay(spacecraft')
       /\ (~OutsidePlay(spacecraft') /\ ~WithinGoal(spacecraft')) => gameState' = "flying"]_vars

(* C6 witness: a flight in the level without bodies that left the bounds.  *)
LeftOpenSpace ==
  /\ event.op = "animate"
  /\ planets = <<>>
  /\ before.gameState = "flying"
  /\ gameState = "failed"
  /\ OutsidePlay(spacecraft)
  /\ Len(trailPositions) = MAX_TRAIL_LENGTH

(* C7: a pointer-up in Aiming while dragging ends the drag; with power > 2 *)
(* it launches with velocity (cos, sin) * power * 0.5, with power <= 2 the *)
(* phase stays Aiming and the velocity stays (0, 0).                       *)
PointerUpLaunch ==
  [][event'.op = "onMouseUp" =>
       /\ isDragging /\ gameState = "aiming"
       /\ ~isDragging'
       /\ IF launchPower > 2 * AimScale
          THEN /\ gameState' = "flying"
               /\ spacecraftVelocity' =
                    [x |-> Quot(launchAngle.c * launchPower, 1000),
                     y |-> Quot(launchAngle.s * launchPower, 1000)]
          ELSE /\ gameState' = "aiming"
               /\ spacecraftVelocity = Zero
               /\ spacecraftVelocity' = Zero]_vars

(* C7 witness: a pointer-up with power exactly 2 that did not launch.      *)
ReleasedAtThreshold ==
  /\ event.op = "onMouseUp"
  /\ before.isDragging
  /\ before.launchPower = 2 * AimScale
  /\ gameState = "aiming"
  /\ ~isDragging

(* C8, as claimed: a level entry by next-level increments attempts by one  *)
(* and a retry leaves attempts unchanged.  (What start and level-select    *)
(* leave in attempts is the subject of C9.)                                *)
RetryKeepsAttempts ==
  [][/\ event'.op = "retryLevel" => attempts' = attempts
     /\ (event'.op = "nextLevel" /\ currentLevel' # currentLevel) => attempts' = attempts + 1]_vars

(* C8, amended: attempts counts the runs of initLevel.  A retry, and a     *)
(* next-level to a further level, adds exactly one to attempts when no     *)
(* overlay is showing, and leaves attempts unchanged when one is (the      *)
(* effect then does not run initLevel).                                    *)
AttemptsCountInits ==
  /\ (InGame \/ gameState \in {"success", "failed"}) =>
       retryLevel(Now).attempts = attempts + (IF InGame THEN 1 ELSE 0)
  /\ gameState = "success" =>
       nextLevel(Now).attempts =
         attempts + (IF InGame /\ currentLevel < LastLevel THEN 1 ELSE 0)

(* C8 witness: a retry has just added one to attempts.                     *)
RetryCounted ==
  /\ event.op = "retryLevel"
  /\ before.gameState = "failed"
  /\ attempts = before.attempts + 1

(* C9, as claimed: after selectLevel(index) the current level is index,    *)
(* the phase is Aiming with a fresh Run, and attempts is 1.                *)
SelectLevelEntersOnce ==
  [][event'.op = "selectLevel" =>
       /\ currentLevel' = event'.arg
       /\ gameState' = "aiming"
       /\ spacecraft' = LevelAt(event'.arg).spacecraft
       /\ spacecraftVelocity' = Zero
       /\ trailPositions' = <<>>
       /\ attempts' = 1]_vars

(* C10, as claimed: right after retry, next-level, level-select or start,  *)
(* no drag is in progress and the power is 0.                              *)
AimDiscardedOnReinit ==
  [][event'.op \in {"retryLevel", "nextLevel", "selectLevel", "startGame"} =>
       ~isDragging' /\ launchPower' = 0]_vars

(* the Run of the record t is fresh: Aiming, at the start position of the  *)
(* current level, at rest, with no trail                                   *)
FreshRun(t) ==
  /\ t.gameState = "aiming"
  /\ t.spacecraft = LevelAt(t.currentLevel).spacecraft
  /\ t.spacecraftVelocity = Zero
  /\ t.trailPositions = <<>>

(* C12, as claimed: in Success or Failed a retry, and in Success on a      *)
(* level that is not the last a next-level, leaves a fresh Run: Aiming,    *)
(* the craft at the start of the now-current level, at rest, no trail.     *)
RetryYieldsFreshRun ==
  /\ gameState \in {"success", "failed"} => FreshRun(retryLevel(Now))
  /\ (gameState = "success" /\ currentLevel < LastLevel) => FreshRun(nextLevel(Now))

(* C13, as claimed: next-level in Success on a level that is not the last  *)
(* adds one to the level index, reinitialises the Run and adds one to      *)
(* attempts; on the last level it keeps the index and shows the menu.      *)
NextLevelAdvances ==
  gameState = "success" =>
    LET t == nextLevel(Now)
    IN IF currentLevel < LastLevel
       THEN /\ t.currentLevel = currentLevel + 1
            /\ FreshRun(t)
            /\ t.attempts = attempts + 1
       ELSE /\ t.currentLevel = currentLevel
            /\ t.showMenu

(* C14: a pointer-up that ends a gesture whose power is 0 never launches:  *)
(* the phase is and stays Aiming and the velocity is and stays (0, 0).     *)
NoAimNoLaunch ==
  [][(event'.op = "onMouseUp" /\ launchPower = 0) =>
       /\ gameState = "aiming" /\ gameState' = "aiming"
       /\ spacecraftVelocity = Zero /\ spacecraftVelocity' = Zero]_vars

(* C14 witness: a pointer-down answered by a pointer-up with no aim, in a  *)
(* session in which a level had been completed before.                     *)
ZeroAimReleased ==
  /\ event.op = "onMouseUp"
  /\ before.isDragging
  /\ before.launchPower = 0
  /\ gameState = "aiming"
  /\ ~isDragging
  /\ completedLevels # {}

(* C15: the power is within 0 .. 30 in every state, and a pointer-move     *)
(* that is acted on sets it to the smaller of the pull's length and 30.    *)
PowerClamped ==
  /\ 0 <= launchPower
  /\ launchPower <= 30 * AimScale
  /\ (isDragging /\ gameState = "aiming") =>
       \A k \in 1 .. Len(Pulls) :
         LET length == Sqrt(Pulls[k].x * Pulls[k].x + Pulls[k].y * Pulls[k].y)
         IN onMouseMove(Now, Pulls[k]).launchPower =
              IF length <= 30 * AimScale THEN length ELSE 30 * AimScale

(* C15 witness: a pointer-move whose pull is longer than 30 left the power *)
(* at 30.                                                                  *)
PowerAtCap ==
  /\ event.op = "onMouseMove"
  /\ Pulls[event.arg].x * Pulls[event.arg].x + Pulls[event.arg].y * Pulls[event.arg].y
       > (30 * AimScale) * (30 * AimScale)
  /\ launchPower = 30 * AimScale

(* C16: a power above 0 is there only while aim tracking is active, and    *)
(* the pointer-up that ends tracking leaves the power at 0.                *)
AimOnlyWhileTracking ==
  /\ launchPower > 0 => isDragging
  /\ event.op = "onMouseUp" => (~isDragging /\ launchPower = 0)

(* C16 witness: a pointer-up below the launch threshold discarded an aim   *)
(* whose power was above 0.                                                *)
AimDiscardedOnRelease ==
  /\ event.op = "onMouseUp"
  /\ before.launchPower > 0
  /\ before.launchPower < 2 * AimScale
  /\ gameState = "aiming"
  /\ launchPower = 0
  /\ ~isDragging

(* C17: the trail never holds more than 100 positions; a Flying tick       *)
(* without collision appends the craft's new position at the end (the      *)
(* oldest leaving when there were 100); every run of initLevel empties it. *)
TrailKept ==
  [][/\ Len(trailPositions) <= 100
     /\ Len(trailPositions') <= 100
     /\ (FlyingTick /\ ~Colliding) =>
          /\ trailPositions'[Len(trailPositions')] = spacecraft'
          /\ trailPositions' =
               IF Len(trailPositions) < 100
               THEN Append(trailPositions, spacecraft')
               ELSE SubSeq(Append(trailPositions, spacecraft'), 2, 101)
     /\ inits' > 0 => trailPositions' = <<>>]_vars

(* C17 witness: a tick has appended to a trail that is full.               *)
TrailFullAtTick ==
  /\ event.op = "animate"
  /\ gameState = "flying"
  /\ Len(trailPositions) = 100
  /\ trailPositions[100] = spacecraft
  /\ trailPositions[99] # spacecraft

(* C18: more than 100 ticks into a flight that has not ended, the trail is *)
(* the last 100 of the positions the ticks of this Run produced, in order. *)
TrailIsLatestHundred ==
  (gameState = "flying" /\ Len(flown) > 100) =>
    /\ Len(trailPositions) = 100
    /\ trailPositions = SubSeq(flown, Len(flown) - 99, Len(flown))

(* C18 witness: a flight still under way after more than 200 ticks.        *)
LongFlight ==
  /\ gameState = "flying"
  /\ event.op = "animate"
  /\ Len(flown) > 200
  /\ flown[Len(flown)] = spacecraft

(* C19: in Flying, Success and Failed a pointer-down, a pointer-move and a *)
(* pointer-up change nothing at all and do not run the predictor.          *)
PointerIgnoredOutsideAiming ==
  gameState # "aiming" =>
    /\ onMouseDown(Now) = Now
    /\ \A k \in 1 .. Len(Pulls) : onMouseMove(Now, Pulls[k]) = Now
    /\ onMouseUp(Now) = Now

(* C19 witness: a flight with no overlay showing, where only the phase     *)
(* keeps a pointer-down from starting a drag.                              *)
PointerDownInFlight ==
  /\ gameState = "flying"
  /\ event.op = "animate"
  /\ InGame
  /\ ~isDragging
  /\ onMouseDown(Now) = Now

(* C20: the predictor returns at most 100 points, from every level's start *)
(* with every pull's velocity, and a pointer-move that runs it (once)      *)
(* leaves the craft's position and velocity, the trail and the phase as    *)
(* they are.                                                               *)
PredictorBounded ==
  /\ \A i \in LevelIndices : \A k \in 1 .. Len(FlightPulls) : Len(Previews[i][k]) <= 100
  /\ trajectoryLine # Undefined => Len(trajectoryLine) <= 100
  /\ (isDragging /\ gameState = "aiming") =>
       \A k \in 1 .. Len(Pulls) :
         LET t == onMouseMove(Now, Pulls[k])
         IN /\ t.predictions = 1
            /\ Len(t.trajectoryLine) <= 100
            /\ t.spacecraft = spacecraft
            /\ t.spacecraftVelocity = spacecraftVelocity
            /\ t.trailPositions = trailPositions
            /\ t.gameState = gameState

(* C20 witness: a pointer-move drew a prediction of the full 100 points.   *)
FullPrediction ==
  /\ event.op = "onMouseMove"
  /\ gameState = "aiming"
  /\ Len(trajectoryLine) = 100
  /\ trailPositions = <<>>

(* the claim's reading of the predictor's stops, in position units *)
InsideBody(pos, bodies) ==
  \E j \in 1 .. Len(bodies) :
    LengthLess(bodies[j].x - pos.x, bodies[j].y - pos.y, bodies[j].radius)
NearGoal(pos, g) == LengthLess(g.x - pos.x, g.y - pos.y, (15 * PosScale) \div 4)
BeyondPreview(pos) ==
  \/ pos.x > 60 * PosScale \/ pos.x < 0 - 60 * PosScale
  \/ pos.y > 50 * PosScale \/ pos.y < 0 - 50 * PosScale

(* the simulated point at the start of step k + 1 of the run that returned *)
(* points from start                                                       *)
PointAt(points, start, k) == IF k = 0 THEN start ELSE points[k]

(* points is a run of the predictor from start as the claim has it: a      *)
(* point was appended only from a point outside every body, not within     *)
(* 3.75 of the goal and (the start aside) inside |x| <= 60, |y| <= 50; and *)
(* a run of fewer than 100 points ended on a point beyond those bounds, or *)
(* else on one inside a body or within 3.75 of the goal.                   *)
TruncatedAsClaimed(points, start, bodies, g) ==
  /\ \A k \in 0 .. (Len(points) - 1) :
       /\ ~InsideBody(PointAt(points, start, k), bodies)
       /\ ~NearGoal(PointAt(points, start, k), g)
       /\ k >= 1 => ~BeyondPreview(points[k])
  /\ Len(points) < 100 =>
       \/ Len(points) >= 1 /\ BeyondPreview(points[Len(points)])
       \/ InsideBody(PointAt(points, start, Len(points)), bodies)
       \/ NearGoal(PointAt(points, start, Len(points)), g)

PreviewsTruncated ==
  \A i \in LevelIndices : \A k \in 1 .. Len(FlightPulls) :
    TruncatedAsClaimed(Previews[i][k], LevelAt(i).spacecraft,
                       LevelAt(i).planets, LevelAt(i).goal)

(* how the catalog's predictions end: inside a body, near the goal, beyond *)
(* the bounds, or after the full 100 points                                *)
EndingOf(points, start, bodies, g) ==
  IF Len(points) >= 1 /\ BeyondPreview(points[Len(points)]) THEN "bounds"
  ELSE IF Len(points) = 100 THEN "full"
  ELSE IF InsideBody(PointAt(points, start, Len(points)), bodies) THEN "collision"
  ELSE IF NearGoal(PointAt(points, start, Len(points)), g) THEN "goal"
  ELSE "other"

PreviewEndings ==
  {EndingOf(Previews[i][k], LevelAt(i).spacecraft, LevelAt(i).planets, LevelAt(i).goal) :
     i \in LevelIndices, k \in 1 .. Len(FlightPulls)}

(* C21: the predictor stops, appending nothing, at a point inside a body   *)
(* or within 3.75 of the goal, and stops after appending a point with      *)
(* |x| > 60 or |y| > 50; every returned point but the last is within       *)
(* |x| <= 60 and |y| <= 50.  For every prediction on the catalog and for   *)
(* the one a pointer-move has just drawn.                                  *)
PredictorTruncation ==
  /\ PreviewsTruncated
  /\ event.op = "onMouseMove" =>
       TruncatedAsClaimed(trajectoryLine, spacecraft, planets, goal)

(* C21 witness: a pointer-move drew a prediction that ended inside a body, *)
(* and the catalog's predictions end in all four ways.                     *)
PredictionCutAtBody ==
  /\ event.op = "onMouseMove"
  /\ Len(trajectoryLine) < 100
  /\ Len(trajectoryLine) >= 1
  /\ ~BeyondPreview(trajectoryLine[Len(trajectoryLine)])
  /\ InsideBody(trajectoryLine[Len(trajectoryLine)], planets)
  /\ PreviewEndings = {"bounds", "full", "collision", "goal"}

(* the Run of the straight-shot scenario: First Launch, in flight with     *)
(* velocity (15, 0), that is 0.24 a tick                                   *)
StraightShot ==
  /\ currentLevel = 0
  /\ planets = <<>>
  /\ goal = Vec(20 * PosScale, 0)
  /\ spacecraftVelocity = Vec(15 * VelScale, 0)

StraightShotTick ==
  /\ StraightShot
  /\ FlyingTick
  /\ spacecraft'.x > spacecraft.x
  /\ spacecraft.y = 0
  /\ spacecraft'.y = 0
  /\ gameState' = (IF WithinGoal(spacecraft') THEN "success" ELSE "flying")

StraightShotLaunch ==
  /\ gameState = "aiming"
  /\ gameState' = "flying"
  /\ spacecraft' = Vec(0 - 20 * PosScale, 0)
  /\ flown' = <<>>

(* C22: on First Launch launched from (-20, 0) with velocity (15, 0),      *)
(* every Flying tick increases x and leaves y at 0, the phase after a tick *)
(* is Success exactly when the new position is within 3.0 of the goal      *)
(* (so at the first such tick) and Flying otherwise, never Failed, and the *)
(* Run does reach Success unless a retry ends it first; a frame changes    *)
(* the state exactly when it finds the phase Flying.                       *)
StraightShotSucceeds ==
  /\ [](FrameDue <=> ~Idle(animate(Now)))
  /\ [][StraightShot' /\ gameState' = "flying" =>
          StraightShotLaunch \/ StraightShotTick]_vars
  /\ [][StraightShot /\ gameState = "flying" =>
          StraightShotTick
          \/ (event'.op = "retryLevel" /\ gameState' = "aiming")]_vars
  /\ (StraightShot /\ gameState = "flying") ~>
       (gameState = "success" \/ gameState = "aiming")

(* C22 witness: the straight shot has ended in Success at its 155th tick,  *)
(* at x = 17.2, the first position within 3.0 of the goal.                 *)
StraightShotLanded ==
  /\ StraightShot
  /\ event.op = "animate"
  /\ gameState = "success"
  /\ Len(flown) = 155
  /\ spacecraft = Vec(17 * PosScale + PosScale \div 5, 0)
  /\ \A k \in 1 .. 154 : ~WithinGoal(flown[k]) /\ flown[k].x < 17 * PosScale
  /\ WithinGoal(flown[155])

(* C23: with an empty body list the gravity pass gives the zero vector and *)
(* no collision, and every Flying tick, the last of the Run included,      *)
(* leaves craftVelocity unchanged and advances craftPosition by exactly    *)
(* craftVelocity (velocity * 0.016 in position units).                     *)
ZeroBodiesStraightLine ==
  /\ [](planets = <<>> /\ spacecraft # Undefined =>
          Gravity(spacecraft, planets, CraftMargin) =
            [crashed |-> FALSE, acceleration |-> Zero])
  /\ [][FlyingTick /\ planets = <<>> =>
          /\ spacecraftVelocity' = spacecraftVelocity
          /\ spacecraft' = Vec(spacecraft.x + spacecraftVelocity.x,
                               spacecraft.y + spacecraftVelocity.y)
          /\ flown' = Append(flown, spacecraft')]_vars

(* C23 witness: a Run with no bodies, launched on a slant, has ended after *)
(* more than 100 ticks, each of which advanced the craft by its velocity.  *)
SlantedFlightEnded ==
  /\ planets = <<>>
  /\ event.op = "animate"
  /\ gameState = "failed"
  /\ spacecraftVelocity.x # 0
  /\ spacecraftVelocity.y # 0
  /\ Len(flown) > 100
  /\ \A k \in 2 .. Len(flown) :
       flown[k] = Vec(flown[k - 1].x + spacecraftVelocity.x,
                      flown[k - 1].y + spacecraftVelocity.y)

(* C24, as claimed: whenever the phase is Aiming and a level has been      *)
(* entered, the Run is fresh: the craft at the start of the current level, *)
(* at rest, no trail; also after next-level on the last level.             *)
AimingIsFresh ==
  (gameState = "aiming" /\ spacecraft # Undefined) => FreshRun(Now)

(* C25: completedLevels is exactly the set of the levels on which a tick   *)
(* has ended in Success: it starts empty, a Flying tick that leaves the    *)
(* phase Success adds the index of the level in flight (the one whose      *)
(* bodies and goal are in the scene), and no other step (start,            *)
(* level-select, retry, next-level, menu, pointer event, any other tick)   *)
(* adds or removes an index.                                               *)
ProgressIsSuccessTicks ==
  /\ completedLevels = {}
  /\ [][completedLevels' =
          completedLevels \cup (IF FlyingTick /\ gameState' = "success"
                                THEN {currentLevel} ELSE {})]_vars
  /\ [][FlyingTick /\ gameState' = "success" =>
          /\ currentLevel' = currentLevel
          /\ planets = LevelAt(currentLevel).planets
          /\ goal = LevelAt(currentLevel).goal]_vars

(* C25 witness: two levels completed, and the game started again from the  *)
(* menu with both still recorded.                                          *)
ProgressKeptOnStart ==
  /\ event.op = "startGame"
  /\ before.completedLevels = {0, LastLevel}
  /\ completedLevels = {0, LastLevel}
  /\ currentLevel = 0
  /\ gameState = "aiming"

(* C26, as claimed: no step takes the phase from Aiming to Flying in a     *)
(* state where the main menu or the level-select overlay is showing.       *)
NoLaunchBehindOverlay ==
  [][(gameState = "aiming" /\ gameState' = "flying") =>
       (~showMenu /\ ~showLevelSelect)]_vars

====
